---------------------------- MODULE Spec2Model ----------------------------
(***************************************************************************)
(* A model of the Vulkan device bootstrap of engine-rs:                    *)
(*   crates/graphics/src/vulkan/device.rs  (VulkanGraphicsDevice)          *)
(*   crates/launcher/src/main.rs           (App, the winit handlers)       *)
(*                                                                         *)
(* Three specifications share the module's variables:                      *)
(*   SpecSelect     select_physical_device and create_logical_device over  *)
(*                  every enumeration of physical devices within bounds;   *)
(*   SpecSwapchain  the extent choice of create_swapchain over every       *)
(*                  surface capability set within bounds;                  *)
(*   SpecLife       the application's life: resumed() constructing the     *)
(*                  device step by step, the redraw loop, the close        *)
(*                  request, and Drop.                                     *)
(***************************************************************************)
EXTENDS Integers, Sequences, FiniteSets, TLC

VARIABLES
    \* ---- select_physical_device / create_logical_device ----
    selPc,          \* "enumerate" | "select" | "logical" | "done"
    enumerated,     \* result of instance.enumerate_physical_devices()
    device_infos,   \* the local Vec<DeviceInfo> after sort_by
    physical,       \* result of select_physical_device
    logical,        \* result of create_logical_device
    \* ---- create_swapchain ----
    swapPc,         \* "query" | "create" | "done"
    caps,           \* result of get_physical_device_surface_capabilities
    formats,        \* result of get_physical_device_surface_formats
    surface_format, \* the local surface_format of create_swapchain
    image_count,    \* the local image_count of create_swapchain
    requested,      \* the (width, height) passed by the caller
    extent,         \* the local extent of create_swapchain
    swapResult,     \* result of create_swapchain
    \* ---- the application: resumed (new), the event loop, Drop ----
    pc,             \* where the application thread is
    newResult,      \* result of VulkanGraphicsDevice::new
    live,           \* live Vulkan handles: kind -> how many
    calls,          \* the trace from the close request on: the events, and the
                    \* Vulkan calls that wait, submit, create or destroy
    frame_counter,  \* the frame slot draw_frame uses next
    fences,         \* in_flight_fences: slot -> signaled
    pending,        \* slots whose submitted work the GPU has not completed
    draws,          \* draw_frame calls made
    lateDraws,      \* draw_frame calls made after event_loop.exit()
    used,           \* the slots a draw_frame call has waited on
    lastDraw        \* what the last draw_frame call did

selVars == <<selPc, enumerated, device_infos, physical, logical>>
swapVars == <<swapPc, caps, formats, surface_format, image_count, requested, extent, swapResult>>
lifeVars == <<pc, newResult, live, calls, frame_counter, fences, pending, draws, lateDraws, used, lastDraw>>
vars == <<selVars, swapVars, lifeVars>>

\* Result<T, E>: Ok(value), or Err(error) with value the zero of T, so that
\* two results of one type are always comparable.
Ok(v) == [tag |-> "Ok", value |-> v, error |-> ""]
Err(m, zero) == [tag |-> "Err", value |-> zero, error |-> m]
\* A result not yet computed.
None(zero) == [tag |-> "None", value |-> zero, error |-> ""]

IsOk(r) == r.tag = "Ok"
IsErr(r) == r.tag = "Err"

(***************************************************************************)
(* Bounds of the model.                                                    *)
(***************************************************************************)
\* Most physical devices one enumeration returns.
MaxDevices == 3
\* Largest width or height a surface reports or a caller requests, short of
\* u32::MAX.
MaxDim == 2
\* Most images a swapchain is created with.
MaxImages == 2
\* Most surface formats a surface reports.
MaxFormats == 3
\* Most draw_frame calls of one run.
MaxFrames == 5
\* Most RedrawRequested events delivered after event_loop.exit() was called.
MaxLateFrames == 1

(***************************************************************************)
(* Physical devices.                                                       *)
(***************************************************************************)
\* vk::PhysicalDeviceType
PhysicalDeviceType == {"DISCRETE_GPU", "INTEGRATED_GPU", "VIRTUAL_GPU", "CPU", "OTHER"}

\* The queue family lists a physical device may report: each family is its
\* set of vk::QueueFlags.
QueueFamilyLayouts ==
    { <<>>,
      << {"COMPUTE", "TRANSFER"} >>,
      << {"GRAPHICS", "COMPUTE", "TRANSFER"} >>,
      << {"TRANSFER"}, {"GRAPHICS", "COMPUTE"}, {"GRAPHICS"} >> }

\* What the driver reports of one physical device.
PhysicalDevices == [device_type : PhysicalDeviceType, queue_families : QueueFamilyLayouts]

RECURSIVE SeqsUpTo(_, _)
SeqsUpTo(S, n) ==
    IF n = 0 THEN { <<>> }
    ELSE LET shorter == SeqsUpTo(S, n - 1)
         IN  shorter \cup { Append(s, x) : s \in { t \in shorter : Len(t) = n - 1 }, x \in S }

\* enumerate_physical_devices(): an error, or up to MaxDevices devices. A
\* device's handle is its place in the enumeration (1-based); its index, the
\* place counted from 0 as enumerate() counts.
Enumerations ==
    { Err("enumerate_physical_devices", <<>>) } \cup { Ok(ds) : ds \in SeqsUpTo(PhysicalDevices, MaxDevices) }

\* struct DeviceInfo { index, handle, properties }
DeviceInfo(devices, i) ==
    [index |-> i - 1, handle |-> i, device_type |-> devices[i].device_type]

\* usize::cmp
IndexCmp(a, b) == IF a < b THEN "Less" ELSE IF a > b THEN "Greater" ELSE "Equal"

\* Mutant: the discrete branches are missing, integrated devices come first.
DeviceCmpNoDiscrete(a, b) ==
    IF a.device_type = b.device_type THEN IndexCmp(a.index, b.index)
    ELSE IF a.device_type = "INTEGRATED_GPU" THEN "Less"
    ELSE IF b.device_type = "INTEGRATED_GPU" THEN "Greater"
    ELSE IndexCmp(a.index, b.index)

\* Mutant: devices of one type are ordered by descending index.
DeviceCmpReversedTie(a, b) ==
    IF a.device_type = b.device_type THEN IndexCmp(b.index, a.index)
    ELSE IF a.device_type = "DISCRETE_GPU" THEN "Less"
    ELSE IF b.device_type = "DISCRETE_GPU" THEN "Greater"
    ELSE IF a.device_type = "INTEGRATED_GPU" THEN "Less"
    ELSE IF b.device_type = "INTEGRATED_GPU" THEN "Greater"
    ELSE IndexCmp(a.index, b.index)

\* The comparator handed to sort_by.
DeviceCmp(a, b) ==
    IF a.device_type = b.device_type THEN IndexCmp(a.index, b.index)
    ELSE IF a.device_type = "DISCRETE_GPU" THEN "Less"
    ELSE IF b.device_type = "DISCRETE_GPU" THEN "Greater"
    ELSE IF a.device_type = "INTEGRATED_GPU" THEN "Less"
    ELSE IF b.device_type = "INTEGRATED_GPU" THEN "Greater"
    ELSE IndexCmp(a.index, b.index)

\* slice::sort_by is a stable sort: an element is placed before the first
\* element it compares Less than, and after every element it does not.
RECURSIVE InsertSorted(_, _)
InsertSorted(x, s) ==
    IF s = <<>> THEN <<x>>
    ELSE IF DeviceCmp(x, Head(s)) = "Less" THEN <<x>> \o s
    ELSE <<Head(s)>> \o InsertSorted(x, Tail(s))

RECURSIVE SortBy(_)
SortBy(s) ==
    IF s = <<>> THEN <<>>
    ELSE InsertSorted(s[Len(s)], SortBy(SubSeq(s, 1, Len(s) - 1)))

\* The Vec<DeviceInfo> built by the enumerate() loop, then sorted.
SortedDeviceInfos(devices) ==
    SortBy([i \in 1..Len(devices) |-> DeviceInfo(devices, i)])

\* select_physical_device: the enumeration's error, "No Vulkan-capable GPU
\* found" for an empty list, else the handle of the first sorted entry.
select_physical_device(enum) ==
    IF IsErr(enum) THEN Err(enum.error, 0)
    ELSE IF enum.value = <<>> THEN Err("No Vulkan-capable GPU found", 0)
    ELSE LET infos == SortedDeviceInfos(enum.value)
         IN  IF infos = <<>> THEN Err("No suitable GPU found", 0)
             ELSE Ok(infos[1].handle)

\* The for loop of create_logical_device: the index (from 0) of the first
\* family whose flags contain GRAPHICS, or -1 for Option::None.
RECURSIVE FirstGraphicsFrom(_, _)
FirstGraphicsFrom(families, i) ==
    IF i > Len(families) THEN -1
    ELSE IF "GRAPHICS" \in families[i] THEN i - 1
    ELSE FirstGraphicsFrom(families, i + 1)

\* Mutant: the last family with GRAPHICS is taken.
LastGraphicsFamily(families) ==
    LET graphics == { i \in 1..Len(families) : "GRAPHICS" \in families[i] }
    IN  IF graphics = {} THEN -1
        ELSE (CHOOSE i \in graphics : \A j \in graphics : j <= i) - 1

FirstGraphicsFamily(families) == FirstGraphicsFrom(families, 1)

\* create_logical_device(physical_device), create_device succeeding or not.
create_logical_device(families, createOk) ==
    LET graphics_family_index == FirstGraphicsFamily(families)
        NoDevice == [graphics_family_index |-> -1, queue_count |-> 0]
    IN  IF graphics_family_index = -1 THEN Err("No graphics queue family found", NoDevice)
        ELSE IF ~createOk THEN Err("create_device", NoDevice)
        ELSE Ok([graphics_family_index |-> graphics_family_index, queue_count |-> 1])

(***************************************************************************)
(* SpecSelect                                                              *)
(***************************************************************************)
\* The application is not under study.
LifeIdle ==
    /\ pc = "idle"
    /\ newResult = None(0)
    /\ live = <<>>
    /\ calls = <<>>
    /\ frame_counter = 0
    /\ fences = <<>>
    /\ pending = <<>>
    /\ draws = 0
    /\ lateDraws = 0
    /\ used = {}
    /\ lastDraw = None(0)

SwapIdle ==
    /\ swapPc = "idle"
    /\ caps = None(0)
    /\ formats = None(0)
    /\ surface_format = None(0)
    /\ image_count = None(0)
    /\ requested = None(0)
    /\ extent = None(0)
    /\ swapResult = None(0)

InitSelect ==
    /\ selPc = "enumerate"
    /\ enumerated = None(<<>>)
    /\ device_infos = <<>>
    /\ physical = None(0)
    /\ logical = None(0)
    /\ SwapIdle
    /\ LifeIdle

\* instance.enumerate_physical_devices()
EnumeratePhysicalDevices ==
    /\ selPc = "enumerate"
    /\ \E e \in Enumerations : enumerated' = e
    /\ selPc' = "select"
    /\ UNCHANGED <<device_infos, physical, logical, swapVars, lifeVars>>

\* The rest of select_physical_device.
SelectPhysicalDevice ==
    /\ selPc = "select"
    /\ device_infos' = IF IsOk(enumerated) THEN SortedDeviceInfos(enumerated.value) ELSE <<>>
    /\ physical' = select_physical_device(enumerated)
    /\ selPc' = IF IsOk(physical') THEN "logical" ELSE "done"
    /\ UNCHANGED <<enumerated, logical, swapVars, lifeVars>>

\* new() goes on to create_logical_device with the device selected.
CreateLogicalDevice ==
    /\ selPc = "logical"
    /\ \E createOk \in BOOLEAN :
          logical' = create_logical_device(enumerated.value[physical.value].queue_families, createOk)
    /\ selPc' = "done"
    /\ UNCHANGED <<enumerated, device_infos, physical, swapVars, lifeVars>>

NextSelect == EnumeratePhysicalDevices \/ SelectPhysicalDevice \/ CreateLogicalDevice

SpecSelect == InitSelect /\ [][NextSelect]_vars

(***************************************************************************)
(* Claims about select_physical_device (checked under SpecSelect).         *)
(***************************************************************************)
\* select_physical_device has returned, on a non-empty enumeration.
Selected == selPc \in {"logical", "done"} /\ IsOk(enumerated) /\ enumerated.value # <<>>

HasGraphicsFamily(d) == \E i \in 1..Len(d.queue_families) : "GRAPHICS" \in d.queue_families[i]

\* The handles of the enumeration whose device has a graphics queue family.
GraphicsCapable == { i \in 1..Len(enumerated.value) : HasGraphicsFamily(enumerated.value[i]) }

TypesEnumerated == { enumerated.value[i].device_type : i \in 1..Len(enumerated.value) }

\* C1: on a non-empty enumeration select_physical_device returns the first
\* candidate of the ranked order that has a graphics queue family, or fails
\* when no candidate has one; it never returns a device without one.
C1_SelectsGraphicsCapable ==
    Selected =>
        IF GraphicsCapable = {} THEN IsErr(physical)
        ELSE /\ IsOk(physical)
             /\ physical.value \in GraphicsCapable
             /\ \A k \in 1..Len(device_infos) :
                    device_infos[k].handle = physical.value =>
                        \A j \in 1..(k - 1) : device_infos[j].handle \notin GraphicsCapable

\* The classes of the ranking: discrete < integrated < virtual < CPU/other.
ClassRank(t) ==
    CASE t = "DISCRETE_GPU" -> 0
      [] t = "INTEGRATED_GPU" -> 1
      [] t = "VIRTUAL_GPU" -> 2
      [] OTHER -> 3

\* C2: the sorted candidates are ordered by class (discrete, integrated,
\* virtual, CPU/other), whatever their enumeration index; the index orders
\* only candidates of one class.
C2_RankedByClass ==
    Selected =>
        \A i, j \in 1..Len(device_infos) :
            LET a == device_infos[i]
                b == device_infos[j]
            IN  /\ ClassRank(a.device_type) < ClassRank(b.device_type) => i < j
                /\ (ClassRank(a.device_type) = ClassRank(b.device_type) /\ a.index < b.index) => i < j

\* C3: an enumeration holding both a discrete and an integrated candidate
\* yields a discrete candidate, whatever the order of enumeration.
C3_DiscreteBeatsIntegrated ==
    (Selected /\ {"DISCRETE_GPU", "INTEGRATED_GPU"} \subseteq TypesEnumerated) =>
        /\ IsOk(physical)
        /\ enumerated.value[physical.value].device_type = "DISCRETE_GPU"

\* An integrated device enumerated first, a discrete one later, selected.
C3_Witness ==
    /\ Selected
    /\ Len(enumerated.value) >= 2
    /\ enumerated.value[1].device_type = "INTEGRATED_GPU"
    /\ "DISCRETE_GPU" \in TypesEnumerated
    /\ IsOk(physical)
    /\ physical.value > 1

\* C4: when every candidate is of the same device class, the candidate of
\* enumeration index 0 is returned.
C4_SameClassLowestIndex ==
    (Selected /\ Cardinality(TypesEnumerated) = 1) =>
        /\ IsOk(physical)
        /\ physical.value = 1
        /\ device_infos[1].index = 0

\* Several candidates of one class (not the top one), the first selected.
C4_Witness ==
    /\ Selected
    /\ Len(enumerated.value) >= 2
    /\ TypesEnumerated = {"VIRTUAL_GPU"}
    /\ IsOk(physical)
    /\ physical.value = 1

\* create_logical_device has returned.
LogicalDeviceTried == selPc = "done" /\ IsOk(physical)

\* The queue families of the device handed to create_logical_device.
SelectedFamilies == enumerated.value[physical.value].queue_families

\* C12: create_logical_device uses the graphics family of lowest index in
\* the enumeration order of the queue families and requests one queue from
\* it, failing only when create_device fails; when no family has GRAPHICS it
\* fails with "No graphics queue family found"; a failed call returns no
\* logical device.
C12_FirstGraphicsFamily ==
    LogicalDeviceTried =>
        LET graphics == { i \in 1..Len(SelectedFamilies) : "GRAPHICS" \in SelectedFamilies[i] }
        IN  /\ graphics = {} =>
                  /\ IsErr(logical)
                  /\ logical.error = "No graphics queue family found"
            /\ (graphics # {} /\ IsErr(logical)) => logical.error = "create_device"
            /\ IsErr(logical) => logical.value.queue_count = 0
            /\ IsOk(logical) =>
                  /\ logical.value.graphics_family_index + 1 \in graphics
                  /\ \A j \in graphics : logical.value.graphics_family_index + 1 <= j
                  /\ logical.value.queue_count = 1

\* The device selected has a family without GRAPHICS, then two with it: the
\* logical device is created on the first of the two.
C12_Witness ==
    /\ LogicalDeviceTried
    /\ Len(SelectedFamilies) = 3
    /\ "GRAPHICS" \notin SelectedFamilies[1]
    /\ "GRAPHICS" \in SelectedFamilies[2]
    /\ "GRAPHICS" \in SelectedFamilies[3]
    /\ IsOk(logical)
    /\ logical.value.graphics_family_index = 1

(***************************************************************************)
(* create_swapchain: the extent.                                           *)
(***************************************************************************)
\* u32::MAX, here the value right above the largest dimension: the u32
\* range is scaled down to 0..U32_MAX.
U32_MAX == MaxDim + 1

U32 == 0..U32_MAX

\* vk::Extent2D
Extent2D == [width : U32, height : U32]

ZeroExtent == [width |-> 0, height |-> 0]

\* vk::SurfaceCapabilitiesKHR, the fields the extent is chosen from.
SurfaceCapabilities ==
    [current_extent : Extent2D, min_image_extent : Extent2D, max_image_extent : Extent2D]

\* vk::SurfaceCapabilitiesKHR, the fields the image count is chosen from.
ImageCounts == [min_image_count : U32, max_image_count : U32]

\* vk::SurfaceCapabilitiesKHR with the extents e and the image counts n.
Capabilities(e, n) ==
    [current_extent |-> e.current_extent, min_image_extent |-> e.min_image_extent,
     max_image_extent |-> e.max_image_extent, min_image_count |-> n.min_image_count,
     max_image_count |-> n.max_image_count]

NoCapabilities ==
    [current_extent |-> ZeroExtent, min_image_extent |-> ZeroExtent, max_image_extent |-> ZeroExtent,
     min_image_count |-> 0, max_image_count |-> 0]

\* vk::SurfaceFormatKHR { format, color_space }
SurfaceFormats ==
    [format : {"B8G8R8A8_SRGB", "B8G8R8A8_UNORM"},
     color_space : {"SRGB_NONLINEAR", "EXTENDED_SRGB_LINEAR"}]

NoFormat == [format |-> "UNDEFINED", color_space |-> "SRGB_NONLINEAR"]

\* What get_physical_device_surface_formats may return: up to MaxFormats
\* formats, in any order, repeated or not, or none at all.
FormatLists == SeqsUpTo(SurfaceFormats, MaxFormats)

\* The closure handed to find().
IsPreferredFormat(f) == f.format = "B8G8R8A8_SRGB" /\ f.color_space = "SRGB_NONLINEAR"

\* A panic of the calling thread, in place of a value.
Panic(zero) == [tag |-> "Panic", value |-> zero, error |-> "panic"]

\* Ord::clamp(self, min, max): asserts min <= max, and panics otherwise.
U32Clamp(x, min, max) ==
    IF min > max THEN Panic(0)
    ELSE IF x < min THEN Ok(min)
    ELSE IF x > max THEN Ok(max)
    ELSE Ok(x)

\* Mutant: the current extent is not looked at, the requested size is always
\* clamped.
SwapchainExtentAlwaysClamps(c, width, height) ==
    LET w == U32Clamp(width, c.min_image_extent.width, c.max_image_extent.width)
        h == U32Clamp(height, c.min_image_extent.height, c.max_image_extent.height)
    IN  IF IsOk(w) /\ IsOk(h) THEN Ok([width |-> w.value, height |-> h.value])
        ELSE Panic(ZeroExtent)

\* let extent = if current_extent.width != u32::MAX { current_extent }
\*              else { Extent2D { width: width.clamp(..), height: height.clamp(..) } }
SwapchainExtent(c, width, height) ==
    IF c.current_extent.width # U32_MAX THEN Ok(c.current_extent)
    ELSE LET w == U32Clamp(width, c.min_image_extent.width, c.max_image_extent.width)
             h == U32Clamp(height, c.min_image_extent.height, c.max_image_extent.height)
         IN  IF IsOk(w) /\ IsOk(h) THEN Ok([width |-> w.value, height |-> h.value])
             ELSE Panic(ZeroExtent)

\* Mutant: the first format is taken, preferred or not.
SwapchainFormatFirst(fs) ==
    IF fs = <<>> THEN Panic(NoFormat) ELSE Ok(fs[1])

\* surface_formats.iter().find(..).unwrap_or(&surface_formats[0]): the
\* argument of unwrap_or is evaluated before the call, and indexing an empty
\* Vec panics; find returns the first entry the closure accepts.
SwapchainFormat(fs) ==
    LET fallback == IF fs = <<>> THEN Panic(NoFormat) ELSE Ok(fs[1])
        found == { k \in 1..Len(fs) : IsPreferredFormat(fs[k]) }
    IN  IF ~IsOk(fallback) THEN fallback
        ELSE IF found # {} THEN Ok(fs[CHOOSE k \in found : \A j \in found : k <= j])
        ELSE fallback

\* u32::min
U32Min(a, b) == IF a <= b THEN a ELSE b

\* Mutant: max_image_count is not looked at.
SwapchainImageCountUncapped(c, overflow_checks) ==
    LET sum == c.min_image_count + 1
    IN  IF sum <= U32_MAX THEN Ok(sum)
        ELSE IF overflow_checks THEN Panic(0)
        ELSE Ok(sum % (U32_MAX + 1))

\* (min_image_count + 1).min(if max_image_count > 0 { max_image_count }
\* else { u32::MAX }). The u32 addition overflows for min_image_count =
\* u32::MAX: a build with overflow checks panics, one without wraps to 0.
SwapchainImageCount(c, overflow_checks) ==
    LET sum == c.min_image_count + 1
        cap == IF c.max_image_count > 0 THEN c.max_image_count ELSE U32_MAX
    IN  IF sum <= U32_MAX THEN Ok(U32Min(sum, cap))
        ELSE IF overflow_checks THEN Panic(0)
        ELSE Ok(U32Min(sum % (U32_MAX + 1), cap))

(***************************************************************************)
(* SpecSwapchain                                                           *)
(***************************************************************************)
SelectIdle ==
    /\ selPc = "idle"
    /\ enumerated = None(<<>>)
    /\ device_infos = <<>>
    /\ physical = None(0)
    /\ logical = None(0)

\* The values an input takes while another one is varied.
DefaultExtents ==
    [current_extent |-> [width |-> 1, height |-> 1], min_image_extent |-> [width |-> 1, height |-> 1],
     max_image_extent |-> [width |-> 2, height |-> 2]]

\* Extents no requested size can be clamped into: the current extent is
\* undefined and the minimum exceeds the maximum.
InvertedExtents ==
    [current_extent |-> [width |-> U32_MAX, height |-> U32_MAX],
     min_image_extent |-> [width |-> 2, height |-> 2], max_image_extent |-> [width |-> 1, height |-> 1]]

DefaultImageCounts == [min_image_count |-> 2, max_image_count |-> 0]

DefaultFormats == << [format |-> "B8G8R8A8_SRGB", color_space |-> "SRGB_NONLINEAR"] >>

DefaultSize == [width |-> 1, height |-> 1]

InitSwapchain ==
    /\ swapPc = "query"
    /\ caps = None(NoCapabilities)
    /\ formats = None(<<>>)
    /\ surface_format = None(NoFormat)
    /\ image_count = None(0)
    /\ requested = ZeroExtent
    /\ extent = None(ZeroExtent)
    /\ swapResult = None(ZeroExtent)
    /\ SelectIdle
    /\ LifeIdle

\* The two surface queries of create_swapchain, called with the size sz,
\* the surface holding the capabilities c and the formats fs: the
\* capabilities, then the formats; a query failing ends the call with its
\* error.
SurfaceQueries(c, fs, sz) ==
    /\ requested' = sz
    /\ \/ /\ caps' = Ok(c)
          /\ formats' = Ok(fs)
          /\ swapPc' = "create"
          /\ swapResult' = swapResult
       \/ /\ caps' = Ok(c)
          /\ formats' = Err("get_physical_device_surface_formats", <<>>)
          /\ swapPc' = "done"
          /\ swapResult' = Err(formats'.error, ZeroExtent)
       \/ /\ caps' = Err("get_physical_device_surface_capabilities", NoCapabilities)
          /\ formats' = formats
          /\ swapPc' = "done"
          /\ swapResult' = Err(caps'.error, ZeroExtent)

\* create_swapchain is entered with the window's inner size, and queries the
\* surface. The format, the extent and the image count are chosen from
\* disjoint inputs: each input is varied over its whole range while the
\* others keep one value, the format lists also with the extents that
\* cannot be clamped.
QuerySurfaceCapabilities ==
    /\ swapPc = "query"
    /\ \/ \E e \in SurfaceCapabilities, sz \in Extent2D :
             SurfaceQueries(Capabilities(e, DefaultImageCounts), DefaultFormats, sz)
       \/ \E n \in ImageCounts :
             SurfaceQueries(Capabilities(DefaultExtents, n), DefaultFormats, DefaultSize)
       \/ \E e \in {DefaultExtents, InvertedExtents}, fs \in FormatLists :
             SurfaceQueries(Capabilities(e, DefaultImageCounts), fs, DefaultSize)
    /\ UNCHANGED <<surface_format, image_count, extent, selVars, lifeVars>>

\* The format, the extent and the image count are chosen in this order, a
\* panic ending the call where it occurs, and the swapchain is created: the
\* call panics, fails, or returns the swapchain with its extent.
CreateSwapchain ==
    /\ swapPc = "create"
    /\ surface_format' = SwapchainFormat(formats.value)
    /\ extent' = IF IsOk(surface_format')
                 THEN SwapchainExtent(caps.value, requested.width, requested.height)
                 ELSE extent
    /\ \E overflow_checks \in BOOLEAN :
          image_count' = IF IsOk(surface_format') /\ IsOk(extent')
                         THEN SwapchainImageCount(caps.value, overflow_checks)
                         ELSE image_count
    /\ \E createOk \in BOOLEAN :
          swapResult' = IF ~IsOk(surface_format') THEN Panic(ZeroExtent)
                        ELSE IF ~IsOk(extent') THEN extent'
                        ELSE IF ~IsOk(image_count') THEN Panic(ZeroExtent)
                        ELSE IF createOk THEN Ok(extent'.value)
                        ELSE Err("create_swapchain", ZeroExtent)
    /\ swapPc' = "done"
    /\ UNCHANGED <<caps, formats, requested, selVars, lifeVars>>

NextSwapchain == QuerySurfaceCapabilities \/ CreateSwapchain

SpecSwapchain == InitSwapchain /\ [][NextSwapchain]_vars

(***************************************************************************)
(* Claims about create_swapchain (checked under SpecSwapchain).            *)
(***************************************************************************)
\* v is x clamped into lo..hi.
IsClamped(v, x, lo, hi) ==
    /\ lo <= v /\ v <= hi
    /\ (lo <= x /\ x <= hi) => v = x
    /\ x < lo => v = lo
    /\ x > hi => v = hi

\* C10: a current extent whose width is not u32::MAX is chosen as it is,
\* whatever size was requested; with a width of u32::MAX the requested size
\* is clamped, width and height each, into the surface's minimum and maximum
\* extent.
C10_ExtentChoice ==
    (swapPc = "done" /\ IsOk(caps) /\ extent.tag # "None") =>
        LET c == caps.value
        IN  IF c.current_extent.width # U32_MAX
            THEN IsOk(extent) /\ extent.value = c.current_extent
            ELSE (/\ c.min_image_extent.width <= c.max_image_extent.width
                  /\ c.min_image_extent.height <= c.max_image_extent.height) =>
                     /\ IsOk(extent)
                     /\ IsClamped(extent.value.width, requested.width,
                                  c.min_image_extent.width, c.max_image_extent.width)
                     /\ IsClamped(extent.value.height, requested.height,
                                  c.min_image_extent.height, c.max_image_extent.height)

\* The scenario of the specification, scaled: the current extent undefined,
\* a width requested below the minimum and a height above the maximum.
C10_Witness ==
    /\ swapPc = "done"
    /\ IsOk(caps)
    /\ caps.value.current_extent.width = U32_MAX
    /\ caps.value.min_image_extent = [width |-> 1, height |-> 1]
    /\ caps.value.max_image_extent = [width |-> 2, height |-> 2]
    /\ requested.width < 1
    /\ requested.height > 2
    /\ IsOk(swapResult)
    /\ swapResult.value = [width |-> 1, height |-> 2]

\* create_swapchain has computed its image count.
ImageCountChosen == swapPc = "done" /\ IsOk(caps) /\ image_count.tag # "None"

\* C11, as stated: for every capability set the image count is
\* min_image_count + 1, capped at max_image_count when that is not 0; it
\* never exceeds a max_image_count that is not 0 and is never below
\* min_image_count.
C11_ImageCount ==
    ImageCountChosen =>
        LET lo == caps.value.min_image_count
            hi == caps.value.max_image_count
        IN  /\ IsOk(image_count)
            /\ image_count.value = IF hi # 0 THEN U32Min(lo + 1, hi) ELSE lo + 1
            /\ hi # 0 => image_count.value <= hi
            /\ image_count.value >= lo

\* C11, amended: for every capability set whose min_image_count is below
\* u32::MAX the image count is min_image_count + 1, capped at
\* max_image_count when that is not 0; it never exceeds a max_image_count
\* that is not 0, and is not below min_image_count when max_image_count is 0
\* or at least min_image_count.
C11_ImageCountAmended ==
    (ImageCountChosen /\ caps.value.min_image_count < U32_MAX) =>
        LET lo == caps.value.min_image_count
            hi == caps.value.max_image_count
        IN  /\ IsOk(image_count)
            /\ image_count.value = IF hi # 0 THEN U32Min(lo + 1, hi) ELSE lo + 1
            /\ hi # 0 => image_count.value <= hi
            /\ (hi = 0 \/ hi >= lo) => image_count.value >= lo

\* The second example of the specification: min = 2 and max = 2 give 2.
C11_Witness ==
    /\ ImageCountChosen
    /\ caps.value.min_image_count = 2
    /\ caps.value.max_image_count = 2
    /\ image_count = Ok(2)

\* create_swapchain has chosen among the formats of a list that is not empty.
FormatChosen == swapPc = "done" /\ IsOk(formats) /\ formats.value # <<>>

\* C13: from a list of formats that is not empty, the entry B8G8R8A8_SRGB
\* with SRGB_NONLINEAR is chosen when the list holds it, at whatever place;
\* the first entry of the list is chosen when it does not.
C13_FormatChoice ==
    FormatChosen =>
        /\ IsOk(surface_format)
        /\ IF \E k \in 1..Len(formats.value) : IsPreferredFormat(formats.value[k])
           THEN IsPreferredFormat(surface_format.value)
           ELSE surface_format.value = formats.value[1]

\* The preferred format is reported second, after another one, and chosen.
C13_Witness ==
    /\ FormatChosen
    /\ Len(formats.value) >= 2
    /\ ~IsPreferredFormat(formats.value[1])
    /\ IsPreferredFormat(formats.value[2])
    /\ surface_format = Ok(formats.value[2])

\* C15: create_swapchain ends with a swapchain or an error, and never with
\* a panic, whatever the surface queries returned.
C15_NeverPanics ==
    swapPc = "done" => swapResult.tag \in {"Ok", "Err"}

(***************************************************************************)
(* The application: App::resumed constructing the device, the winit event  *)
(* loop, and Drop for VulkanGraphicsDevice.                                *)
(***************************************************************************)
\* const MAX_FRAMES_IN_FLIGHT: u32 = 3
MAX_FRAMES_IN_FLIGHT == 3

\* The frame slots: the indices of the fences, semaphores, command buffers.
Slots == 0..(MAX_FRAMES_IN_FLIGHT - 1)

\* The kinds of Vulkan object the device struct holds, or its construction
\* creates on the way.
HandleKinds ==
    { "instance", "debug_messenger", "surface", "device", "swapchain", "swapchain_image",
      "image_view", "render_pass", "shader_module", "pipeline_layout", "pipeline",
      "framebuffer", "command_pool", "command_buffer", "image_available_semaphore",
      "render_finished_semaphore", "fence" }

NoHandles == [k \in HandleKinds |-> 0]

\* n more handles of a kind are live.
Created(l, kind, n) == [l EXCEPT ![kind] = @ + n]

\* Every handle of a kind is destroyed; command buffers are freed with their
\* pool, swapchain images with their swapchain.
Destroyed(l, kind) ==
    IF kind = "none" THEN l
    ELSE IF kind = "command_pool" THEN [l EXCEPT !["command_pool"] = 0, !["command_buffer"] = 0]
    ELSE IF kind = "swapchain" THEN [l EXCEPT !["swapchain"] = 0, !["swapchain_image"] = 0]
    ELSE [l EXCEPT ![kind] = 0]

\* The same call made n times.
Repeat(call, n) == [i \in 1..n |-> call]

\* The values draw_frame's record takes before any draw.
NoDraw ==
    [outcome |-> "none", result |-> "None", before |-> 0, signaled |-> TRUE, busy |-> FALSE,
     calls |-> <<>>]

InitLife ==
    /\ pc = "start"
    /\ newResult = None(0)
    /\ live = NoHandles
    /\ calls = <<>>
    /\ frame_counter = 0
    /\ fences = <<>>
    /\ pending = <<>>
    /\ draws = 0
    /\ lateDraws = 0
    /\ used = {}
    /\ lastDraw = NoDraw
    /\ SelectIdle
    /\ swapPc = "idle"
    /\ caps = None(0)
    /\ formats = None(0)
    /\ surface_format = None(0)
    /\ image_count = None(0)
    /\ requested = None(0)
    /\ extent = None(0)
    /\ swapResult = None(0)

frameVars == <<frame_counter, fences, pending, draws, lateDraws, used, lastDraw>>

\* One step of new(): `call` is made until it has created n handles of a
\* kind, and new() goes on at `next`; or one of the calls fails after j of
\* them succeeded, and `?` returns its error from new(). Nothing is destroyed
\* on that way out: the handles are plain values without a Drop.
NewStep(at, next, call, kind, n) ==
    /\ pc = at
    /\ \/ /\ pc' = next
          /\ live' = Created(live, kind, n)
          /\ newResult' = newResult
       \/ \E j \in 0..(IF n = 0 THEN 0 ELSE n - 1) :
          /\ pc' = "failed"
          /\ live' = Created(live, kind, j)
          /\ newResult' = Err(call, 0)
    /\ UNCHANGED <<calls, frameVars, selVars, swapVars>>

\* App::resumed: the window is created (expect panics when it is not), and
\* VulkanGraphicsDevice::new is entered.
Resumed ==
    /\ pc = "start"
    /\ \/ pc' = "Entry::load"
       \/ pc' = "aborted"
    /\ UNCHANGED <<newResult, live, calls, frameVars, selVars, swapVars>>

EntryLoad == NewStep("Entry::load", "create_instance", "Entry::load", "instance", 0)

NewCreateInstance == NewStep("create_instance", "setup_debug_messenger", "create_instance", "instance", 1)

NewSetupDebugMessenger ==
    NewStep("setup_debug_messenger", "create_surface", "create_debug_utils_messenger", "debug_messenger", 1)

NewCreateSurface == NewStep("create_surface", "select_physical_device", "create_surface", "surface", 1)

NewSelectPhysicalDevice ==
    NewStep("select_physical_device", "create_logical_device", "select_physical_device", "device", 0)

NewCreateLogicalDevice == NewStep("create_logical_device", "create_swapchain", "create_device", "device", 1)

\* create_swapchain inside new(): a query or the creation fails; the format
\* or the extent panics; the swapchain is created and get_swapchain_images
\* fails; or the swapchain is returned with its images.
NewCreateSwapchain ==
    /\ pc = "create_swapchain"
    /\ \/ /\ pc' = "failed"
          /\ newResult' = Err("create_swapchain", 0)
          /\ live' = live
       \/ /\ pc' = "failed"
          /\ newResult' = Panic(0)
          /\ live' = live
       \/ /\ pc' = "failed"
          /\ newResult' = Err("get_swapchain_images", 0)
          /\ live' = Created(live, "swapchain", 1)
       \/ \E n \in 1..MaxImages :
          /\ pc' = "create_image_views"
          /\ newResult' = newResult
          /\ live' = Created(Created(live, "swapchain", 1), "swapchain_image", n)
    /\ UNCHANGED <<calls, frameVars, selVars, swapVars>>

NewCreateImageViews ==
    NewStep("create_image_views", "create_render_pass", "create_image_view", "image_view",
            live["swapchain_image"])

NewCreateRenderPass ==
    NewStep("create_render_pass", "create_graphics_pipeline", "create_render_pass", "render_pass", 1)

\* create_graphics_pipeline: the two shader modules, the layout, the
\* pipeline; the modules are destroyed once the pipeline exists. Each of the
\* four creations may fail, and `?` then returns at once.
NewCreateGraphicsPipeline ==
    /\ pc = "create_graphics_pipeline"
    /\ \/ /\ pc' = "failed"
          /\ newResult' = Err("create_shader_module", 0)
          /\ \E j \in 0..1 : live' = Created(live, "shader_module", j)
       \/ /\ pc' = "failed"
          /\ newResult' = Err("create_pipeline_layout", 0)
          /\ live' = Created(live, "shader_module", 2)
       \/ /\ pc' = "failed"
          /\ newResult' = Err("create_graphics_pipelines", 0)
          /\ live' = Created(Created(live, "shader_module", 2), "pipeline_layout", 1)
       \/ /\ pc' = "create_framebuffers"
          /\ newResult' = newResult
          /\ live' = Destroyed(Created(Created(Created(live, "shader_module", 2),
                                                "pipeline_layout", 1), "pipeline", 1),
                                "shader_module")
    /\ UNCHANGED <<calls, frameVars, selVars, swapVars>>

NewCreateFramebuffers ==
    NewStep("create_framebuffers", "create_command_pool", "create_framebuffer", "framebuffer",
            live["image_view"])

NewCreateCommandPool ==
    NewStep("create_command_pool", "create_command_buffers", "create_command_pool", "command_pool", 1)

\* allocate_command_buffers allocates all MAX_FRAMES_IN_FLIGHT buffers or none.
NewCreateCommandBuffers ==
    /\ pc = "create_command_buffers"
    /\ \/ /\ pc' = "create_sync_objects"
          /\ newResult' = newResult
          /\ live' = Created(live, "command_buffer", MAX_FRAMES_IN_FLIGHT)
       \/ /\ pc' = "failed"
          /\ newResult' = Err("allocate_command_buffers", 0)
          /\ live' = live
    /\ UNCHANGED <<calls, frameVars, selVars, swapVars>>

\* The handles live after the first j creations of create_sync_objects'
\* loop: per slot a semaphore, a semaphore and a fence.
SyncCreated(l, j) ==
    Created(Created(Created(l, "image_available_semaphore", (j + 2) \div 3),
                    "render_finished_semaphore", (j + 1) \div 3),
            "fence", j \div 3)

\* Mutant: the fences are created without the SIGNALED flag.
InitialFencesUnsignaled == [i \in Slots |-> FALSE]

\* in_flight_fences as create_sync_objects returns it: one fence per slot,
\* each created with vk::FenceCreateFlags::SIGNALED.
InitialFences == [i \in Slots |-> TRUE]

\* create_sync_objects, and the Ok(Self { .. }) that ends new(): every fence
\* is created SIGNALED. Any of the 3 * MAX_FRAMES_IN_FLIGHT creations may fail.
NewCreateSyncObjects ==
    /\ pc = "create_sync_objects"
    /\ \/ /\ pc' = "running"
          /\ newResult' = Ok(1)
          /\ live' = SyncCreated(live, 3 * MAX_FRAMES_IN_FLIGHT)
          /\ fences' = InitialFences
       \/ \E j \in 0..(3 * MAX_FRAMES_IN_FLIGHT - 1) :
          /\ pc' = "failed"
          /\ newResult' = Err(IF j % 3 = 2 THEN "create_fence" ELSE "create_semaphore", 0)
          /\ live' = SyncCreated(live, j)
          /\ fences' = fences
    /\ UNCHANGED <<calls, frame_counter, pending, draws, lateDraws, used, lastDraw, selVars, swapVars>>

\* VulkanGraphicsDevice::new, step by step.
New ==
    \/ EntryLoad
    \/ NewCreateInstance
    \/ NewSetupDebugMessenger
    \/ NewCreateSurface
    \/ NewSelectPhysicalDevice
    \/ NewCreateLogicalDevice
    \/ NewCreateSwapchain
    \/ NewCreateImageViews
    \/ NewCreateRenderPass
    \/ NewCreateGraphicsPipeline
    \/ NewCreateFramebuffers
    \/ NewCreateCommandPool
    \/ NewCreateCommandBuffers
    \/ NewCreateSyncObjects

(***************************************************************************)
(* The frame loop. draw_frame and wait_idle are called by main.rs and are  *)
(* not defined in device.rs: they are modelled from the specification's    *)
(* frame protocol (4.6), recreation policy (4.4) and interface (6).        *)
(***************************************************************************)
\* What one draw_frame call meets: every step succeeds, or acquire reports
\* the swapchain stale or fails, or submit fails, or present reports the
\* swapchain stale or fails.
DrawOutcomes ==
    { "ok", "acquire_stale", "acquire_error", "submit_error", "present_stale", "present_error" }

\* Mutant: the fence is not waited for.
FenceWaitSkipped(i) == TRUE

\* Step 1, Wait: draw_frame blocks until in_flight[i] is signaled.
FenceWait(i) == fences[i]

\* The outcomes in which step 4, Submit, succeeded.
Submitted(outcome) == outcome \in {"ok", "present_stale", "present_error"}

\* The outcomes in which the swapchain was reported stale.
Stale(outcome) == outcome \in {"acquire_stale", "present_stale"}

\* Mutant: the counter advances on every call.
NextFrameCounterAlways(fc, outcome) == (fc + 1) % MAX_FRAMES_IN_FLIGHT

\* Step 6: frame_counter advances by 1 (mod F) when submit succeeded,
\* whatever present did; an iteration aborted before is retried.
NextFrameCounter(fc, outcome) ==
    IF Submitted(outcome) THEN (fc + 1) % MAX_FRAMES_IN_FLIGHT ELSE fc

\* What draw_frame returns: staleness is recovered from, any other failure
\* is the frame's draw error.
DrawResult(outcome) ==
    IF outcome \in {"acquire_error", "submit_error", "present_error"} THEN "Err" ELSE "Ok"

\* The slots of the submissions in flight.
InFlight(p) == { p[k] : k \in 1..Len(p) }

\* device_wait_idle returning success: every submission has completed, and
\* signaled its fence.
Drained(f, p) == [i \in Slots |-> f[i] \/ i \in InFlight(p)]

\* The recreation of the swapchain: idle wait, the old framebuffers, image
\* views and swapchain destroyed, then created anew with n images.
RecreateCalls(old, n) ==
    <<"device_wait_idle">> \o Repeat("destroy_framebuffer", old) \o Repeat("destroy_image_view", old)
        \o <<"destroy_swapchain", "create_swapchain">>
        \o Repeat("create_image_view", n) \o Repeat("create_framebuffer", n)

Recreated(l, n) ==
    [l EXCEPT !["swapchain_image"] = n, !["image_view"] = n, !["framebuffer"] = n]

\* The calls of one draw_frame.
DrawCalls(outcome, old, n) ==
    (IF Submitted(outcome) THEN <<"queue_submit">> ELSE <<>>)
        \o (IF Stale(outcome) THEN RecreateCalls(old, n) ELSE <<>>)

\* draw_frame on slot i = frame_counter: wait for the slot's fence; acquire;
\* reset the fence and record; submit; present; advance.
draw_frame(outcome, n) ==
    LET i == frame_counter
        recorded == outcome \notin {"acquire_stale", "acquire_error"}
        reset == IF recorded THEN [fences EXCEPT ![i] = FALSE] ELSE fences
        queued == IF Submitted(outcome) THEN Append(pending, i) ELSE pending
        made == DrawCalls(outcome, live["swapchain_image"], n)
    IN  /\ FenceWait(i)
        /\ fences' = IF Stale(outcome) THEN Drained(reset, queued) ELSE reset
        /\ pending' = IF Stale(outcome) THEN <<>> ELSE queued
        /\ live' = IF Stale(outcome) THEN Recreated(live, n) ELSE live
        /\ calls' = IF pc = "exiting" THEN calls \o made ELSE calls
        /\ frame_counter' = NextFrameCounter(frame_counter, outcome)
        /\ used' = used \cup {i}
        /\ lastDraw' = [outcome |-> outcome, result |-> DrawResult(outcome), before |-> i,
                        signaled |-> fences[i], busy |-> i \in InFlight(pending),
                        calls |-> made]

\* WindowEvent::RedrawRequested: draw_frame, its error only printed, and the
\* next redraw requested. The event may still be delivered after exit() was
\* called, before the loop ends.
RedrawRequested ==
    /\ pc \in {"running", "exiting"}
    /\ draws < MaxFrames
    /\ pc = "exiting" => lateDraws < MaxLateFrames
    /\ \E outcome \in DrawOutcomes, n \in 1..MaxImages :
          /\ Stale(outcome) \/ n = live["swapchain_image"]
          /\ draw_frame(outcome, n)
    /\ draws' = draws + 1
    /\ lateDraws' = IF pc = "exiting" THEN lateDraws + 1 ELSE lateDraws
    /\ UNCHANGED <<pc, newResult, selVars, swapVars>>

\* The GPU completes the oldest submission and signals its fence.
GpuComplete ==
    /\ pc \in {"running", "exiting", "drop"}
    /\ live["device"] > 0
    /\ pending # <<>>
    /\ fences' = [fences EXCEPT ![Head(pending)] = TRUE]
    /\ pending' = Tail(pending)
    /\ UNCHANGED <<pc, newResult, live, calls, frame_counter, draws, lateDraws, used, lastDraw, selVars, swapVars>>

\* The name a device_wait_idle call is logged under, by its result.
DeviceWaitIdleCall(ok) == IF ok THEN "device_wait_idle" ELSE "device_wait_idle_failed"

\* wait_idle(&self): the device's idle wait. On success everything
\* submitted has completed; on failure nothing is known to have.
wait_idle(ok) ==
    /\ calls' = calls \o <<"CloseRequested", DeviceWaitIdleCall(ok)>>
    /\ fences' = IF ok THEN Drained(fences, pending) ELSE fences
    /\ pending' = IF ok THEN <<>> ELSE pending

\* WindowEvent::CloseRequested: let _ = device.wait_idle(); event_loop.exit().
\* The close request is logged before the calls it makes.
CloseRequested ==
    /\ pc = "running"
    /\ \E ok \in BOOLEAN : wait_idle(ok)
    /\ pc' = "exiting"
    /\ UNCHANGED <<newResult, live, frame_counter, draws, lateDraws, used, lastDraw, selVars, swapVars>>

\* run_app returns, main ends and drops the App, and with it the device.
LoopExit ==
    /\ pc = "exiting"
    /\ pc' = "drop"
    /\ calls' = Append(calls, "Drop")
    /\ UNCHANGED <<newResult, live, frameVars, selVars, swapVars>>

(***************************************************************************)
(* impl Drop for VulkanGraphicsDevice                                      *)
(***************************************************************************)
Statement(call, kind) == [call |-> call, kind |-> kind]

\* Mutant: the device is not waited for.
DropBodyNoIdleWait ==
    << Statement("destroy_semaphore", "image_available_semaphore"),
       Statement("destroy_semaphore", "render_finished_semaphore"),
       Statement("destroy_fence", "fence"),
       Statement("destroy_command_pool", "command_pool"),
       Statement("destroy_framebuffer", "framebuffer"),
       Statement("destroy_pipeline", "pipeline"),
       Statement("destroy_pipeline_layout", "pipeline_layout"),
       Statement("destroy_render_pass", "render_pass"),
       Statement("destroy_image_view", "image_view"),
       Statement("destroy_swapchain", "swapchain"),
       Statement("destroy_device", "device"),
       Statement("destroy_surface", "surface"),
       Statement("destroy_debug_utils_messenger", "debug_messenger"),
       Statement("destroy_instance", "instance") >>

\* Mutant: the swapchain is destroyed after the logical device.
DropBodyDeviceBeforeSwapchain ==
    << Statement("device_wait_idle", "none"),
       Statement("destroy_semaphore", "image_available_semaphore"),
       Statement("destroy_semaphore", "render_finished_semaphore"),
       Statement("destroy_fence", "fence"),
       Statement("destroy_command_pool", "command_pool"),
       Statement("destroy_framebuffer", "framebuffer"),
       Statement("destroy_pipeline", "pipeline"),
       Statement("destroy_pipeline_layout", "pipeline_layout"),
       Statement("destroy_render_pass", "render_pass"),
       Statement("destroy_image_view", "image_view"),
       Statement("destroy_device", "device"),
       Statement("destroy_swapchain", "swapchain"),
       Statement("destroy_surface", "surface"),
       Statement("destroy_debug_utils_messenger", "debug_messenger"),
       Statement("destroy_instance", "instance") >>

\* The statements of drop(), in order: the call, and the kind of handle it
\* is made for (once for each handle the field holds).
DropBody ==
    << Statement("device_wait_idle", "none"),
       Statement("destroy_semaphore", "image_available_semaphore"),
       Statement("destroy_semaphore", "render_finished_semaphore"),
       Statement("destroy_fence", "fence"),
       Statement("destroy_command_pool", "command_pool"),
       Statement("destroy_framebuffer", "framebuffer"),
       Statement("destroy_pipeline", "pipeline"),
       Statement("destroy_pipeline_layout", "pipeline_layout"),
       Statement("destroy_render_pass", "render_pass"),
       Statement("destroy_image_view", "image_view"),
       Statement("destroy_swapchain", "swapchain"),
       Statement("destroy_device", "device"),
       Statement("destroy_surface", "surface"),
       Statement("destroy_debug_utils_messenger", "debug_messenger"),
       Statement("destroy_instance", "instance") >>

\* The calls drop() makes running `body` with the handles l live, the idle
\* wait returning ok or not.
RECURSIVE DropCalls(_, _, _)
DropCalls(body, l, ok) ==
    IF body = <<>> THEN <<>>
    ELSE LET st == Head(body)
         IN  (IF st.call = "device_wait_idle" THEN <<DeviceWaitIdleCall(ok)>>
              ELSE Repeat(st.call, l[st.kind]))
                 \o DropCalls(Tail(body), Destroyed(l, st.kind), ok)

\* The handles left live by `body`.
RECURSIVE DropLive(_, _)
DropLive(body, l) ==
    IF body = <<>> THEN l ELSE DropLive(Tail(body), Destroyed(l, Head(body).kind))

\* Whether `body` waits for the device.
WaitsIdle(body) == \E k \in 1..Len(body) : body[k].call = "device_wait_idle"

\* drop(): every statement of DropBody in turn. The result of the idle wait
\* is discarded (let _ =), and the destroy calls return nothing, so nothing
\* stops the sequence.
Drop ==
    /\ pc = "drop"
    /\ \E ok \in BOOLEAN :
          LET drains == ok /\ WaitsIdle(DropBody)
          IN  /\ calls' = calls \o DropCalls(DropBody, live, ok)
              /\ fences' = IF drains THEN Drained(fences, pending) ELSE fences
              /\ pending' = IF drains THEN <<>> ELSE pending
    /\ live' = DropLive(DropBody, live)
    /\ pc' = "dropped"
    /\ UNCHANGED <<newResult, frame_counter, draws, lateDraws, used, lastDraw, selVars, swapVars>>

NextLife ==
    \/ Resumed
    \/ New
    \/ RedrawRequested
    \/ GpuComplete
    \/ CloseRequested
    \/ LoopExit
    \/ Drop

SpecLife == InitLife /\ [][NextLife]_vars

(***************************************************************************)
(* Teardown (C5), failed construction (C6), the frame loop (C7, C8) and    *)
(* the close request (C9).                                                 *)
(***************************************************************************)
\* The calls made from the "Drop" marker on: the calls of drop().
DropTrace ==
    IF \E k \in 1..Len(calls) : calls[k] = "Drop"
    THEN LET d == CHOOSE k \in 1..Len(calls) : calls[k] = "Drop"
         IN  SubSeq(calls, d + 1, Len(calls))
    ELSE <<>>

IsIdleWait(call) == call \in {"device_wait_idle", "device_wait_idle_failed"}

IsDestroy(call) ==
    call \in { "destroy_semaphore", "destroy_fence", "destroy_command_pool", "destroy_framebuffer",
               "destroy_pipeline", "destroy_pipeline_layout", "destroy_render_pass",
               "destroy_image_view", "destroy_swapchain", "destroy_device", "destroy_surface",
               "destroy_debug_utils_messenger", "destroy_instance" }

\* The stage of the teardown contract a call belongs to.
TeardownStage(call) ==
    CASE IsIdleWait(call) -> "idle wait"
      [] call \in {"destroy_semaphore", "destroy_fence"} -> "sync primitives"
      [] call = "destroy_command_pool" -> "command pool"
      [] call = "destroy_framebuffer" -> "framebuffers"
      [] call = "destroy_pipeline" -> "pipeline"
      [] call = "destroy_pipeline_layout" -> "pipeline layout"
      [] call = "destroy_render_pass" -> "render pass"
      [] call = "destroy_image_view" -> "image views"
      [] call = "destroy_swapchain" -> "swapchain"
      [] call = "destroy_device" -> "logical device"
      [] call = "destroy_surface" -> "surface"
      [] call = "destroy_debug_utils_messenger" -> "diagnostic callback"
      [] call = "destroy_instance" -> "instance"
      [] OTHER -> "other"

\* The stages a trace goes through, each run of calls of one stage counted once.
RECURSIVE Stages(_)
Stages(trace) ==
    IF trace = <<>> THEN <<>>
    ELSE LET stage == TeardownStage(Head(trace))
             rest == Stages(Tail(trace))
         IN  IF rest # <<>> /\ Head(rest) = stage THEN rest ELSE <<stage>> \o rest

TeardownOrder ==
    << "idle wait", "sync primitives", "command pool", "framebuffers", "pipeline",
       "pipeline layout", "render pass", "image views", "swapchain", "logical device",
       "surface", "diagnostic callback", "instance" >>

\* C5: when the device is dropped, the idle wait is the first call of drop(),
\* made once and before every destroy call; the destroy calls then go through
\* the stages sync primitives, command pool, framebuffers, pipeline, pipeline
\* layout, render pass, image views, swapchain, logical device, surface,
\* diagnostic callback, instance, in this order and each stage once, whether
\* the idle wait succeeded or failed; and no handle is left live. Before
\* drop() runs, the exit path has destroyed nothing of the device.
C5_TeardownOrder ==
    /\ pc = "drop" => DropTrace = <<>>
    /\ pc = "dropped" =>
          /\ DropTrace # <<>>
          /\ IsIdleWait(Head(DropTrace))
          /\ \A k \in 2..Len(DropTrace) : IsDestroy(DropTrace[k])
          /\ Stages(DropTrace) = TeardownOrder
          /\ live = NoHandles

\* The device is dropped after an idle wait that failed, and every stage of
\* the teardown has run all the same.
C5_Witness ==
    /\ pc = "dropped"
    /\ Head(DropTrace) = "device_wait_idle_failed"
    /\ Stages(DropTrace) = TeardownOrder
    /\ DropTrace[Len(DropTrace)] = "destroy_instance"
    /\ live = NoHandles

\* C6: after a construction that failed (a step of new() returned an error,
\* or panicked), no handle created by the earlier steps remains live.
C6_FailedConstructionUnwinds ==
    pc = "failed" => live = NoHandles

\* The submissions in flight are on distinct slots.
DistinctSlots(p) == \A j, k \in 1..Len(p) : j # k => p[j] # p[k]

\* C7: while the frame loop runs (draw_frame calls interleaved with GPU
\* completions), at most F = 3 command buffers have an unsignaled in_flight
\* fence, at most F submissions are in flight, on distinct slots whose fences
\* are unsignaled, and a draw_frame that recorded slot i's command buffer
\* found in_flight[i] signaled and no submission of slot i in flight.
C7_BoundedFramesInFlight ==
    pc \in {"running", "exiting"} =>
        /\ MAX_FRAMES_IN_FLIGHT = 3
        /\ Cardinality({ i \in Slots : ~fences[i] }) <= MAX_FRAMES_IN_FLIGHT
        /\ Len(pending) <= MAX_FRAMES_IN_FLIGHT
        /\ DistinctSlots(pending)
        /\ \A i \in InFlight(pending) : ~fences[i]
        /\ lastDraw.outcome \notin {"none", "acquire_stale", "acquire_error"} =>
              /\ lastDraw.signaled
              /\ ~lastDraw.busy

\* Slot 0 is recorded a second time, by the fourth draw_frame, after the GPU
\* completed its first submission, and F submissions are in flight again.
C7_Witness ==
    /\ pc = "running"
    /\ draws = 4
    /\ lastDraw.outcome = "ok"
    /\ lastDraw.before = 0
    /\ lastDraw.signaled
    /\ pending = <<1, 2, 0>>
    /\ Cardinality({ i \in Slots : ~fences[i] }) = MAX_FRAMES_IN_FLIGHT

\* How many times a call occurs in a trace.
Count(trace, call) == Cardinality({ k \in 1..Len(trace) : trace[k] = call })

\* The swapchain recreation cycles of a trace.
Recreations(trace) == Count(trace, "create_swapchain")

\* C8: a draw_frame to which acquire reported the swapchain stale made exactly
\* one recreation cycle, submitted nothing, left frame_counter as it was and
\* returned Ok; one to which present reported it made exactly one recreation
\* cycle, advanced frame_counter by 1 (mod F) and returned Ok; a draw_frame
\* without a stale signal recreated nothing.
C8_StaleRecreatesOnce ==
    (pc \in {"running", "exiting"} /\ lastDraw.outcome # "none") =>
        /\ lastDraw.outcome = "acquire_stale" =>
              /\ Recreations(lastDraw.calls) = 1
              /\ Count(lastDraw.calls, "destroy_swapchain") = 1
              /\ Count(lastDraw.calls, "queue_submit") = 0
              /\ frame_counter = lastDraw.before
              /\ lastDraw.result = "Ok"
        /\ lastDraw.outcome = "present_stale" =>
              /\ Recreations(lastDraw.calls) = 1
              /\ Count(lastDraw.calls, "destroy_swapchain") = 1
              /\ Count(lastDraw.calls, "queue_submit") = 1
              /\ frame_counter = (lastDraw.before + 1) % MAX_FRAMES_IN_FLIGHT
              /\ lastDraw.result = "Ok"
        /\ ~Stale(lastDraw.outcome) => Recreations(lastDraw.calls) = 0

\* Present reported the swapchain stale to the draw_frame of slot 2: the
\* swapchain was recreated once and frame_counter wrapped to 0.
C8_Witness ==
    /\ pc = "running"
    /\ lastDraw.outcome = "present_stale"
    /\ lastDraw.before = 2
    /\ frame_counter = 0
    /\ Recreations(lastDraw.calls) = 1
    /\ lastDraw.result = "Ok"

=============================================================================
